---- MODULE Spec2Model ----
(***************************************************************************)
(* Model of src/notion.py: the class `api`, a client of the Notion HTTP    *)
(* API.  The state is one client object (its session, base URL and header  *)
(* set), the last call made on it (one of the ten operations, or one of    *)
(* the session's verb methods the client exposes as attributes), the       *)
(* request that call handed to the transport (requests.Session) and what   *)
(* the caller got back.                                                    *)
(*                                                                         *)
(* Python values are tagged records: None, Str(s), PyInt(n), List(l) and   *)
(* Dict(d), with d a function from key strings to values.  Strings are     *)
(* TLA+ strings; + on strings is \o and `in` on strings is a substring     *)
(* search, so URLs and header values are the strings the code builds.      *)
(***************************************************************************)
EXTENDS Integers, Sequences, FiniteSets, TLC

VARIABLES pc, token, session, notion_api, headers,
          call, request, transport, result, raised, calls, verbcalls, nrequests

vars == <<pc, token, session, notion_api, headers,
          call, request, transport, result, raised, calls, verbcalls, nrequests>>

(***************************************************************************)
(* Bound: the number of calls (operations and verbs) made on one client.   *)
(***************************************************************************)
MaxCalls == 2

(***************************************************************************)
(* Python values.                                                          *)
(***************************************************************************)
None == [t |-> "none"]

Str(s) == [t |-> "str", s |-> s]

PyInt(n) == [t |-> "int", n |-> n]

List(l) == [t |-> "list", l |-> l]

Dict(d) == [t |-> "dict", d |-> d]

EmptyMap == [k \in {} |-> None]

\* bool(v): the truth value Python's `if v:` / `not v` tests.
Truthy(v) ==
    CASE v.t = "none" -> FALSE
      [] v.t = "str"  -> v.s # ""
      [] v.t = "int"  -> v.n # 0
      [] v.t = "list" -> v.l # <<>>
      [] v.t = "dict" -> DOMAIN v.d # {}

\* One decimal digit as text.
Digit(d) == SubSeq("0123456789", d + 1, d + 1)

RECURSIVE Decimal(_)
\* The decimal text of a natural number.
Decimal(n) == IF n < 10 THEN Digit(n) ELSE Decimal(n \div 10) \o Digit(n % 10)

\* format(v) inside an f-string, for the values a token can be.
Format(v) ==
    CASE v.t = "str"  -> v.s
      [] v.t = "int"  -> IF v.n < 0 THEN "-" \o Decimal(0 - v.n) ELSE Decimal(v.n)
      [] v.t = "none" -> "None"

\* sub in s, for two strings.
Contains(sub, s) ==
    \E i \in 1..(Len(s) - Len(sub) + 1) : SubSeq(s, i, i + Len(sub) - 1) = sub

\* x in v, for a string x: [ok |-> FALSE] stands for the TypeError it raises
\* when v is not a container.
PyIn(x, v) ==
    CASE v.t = "str"  -> [ok |-> TRUE, b |-> Contains(x, v.s)]
      [] v.t = "list" -> [ok |-> TRUE, b |-> \E i \in DOMAIN v.l : v.l[i] = Str(x)]
      [] v.t = "dict" -> [ok |-> TRUE, b |-> x \in DOMAIN v.d]
      [] OTHER        -> [ok |-> FALSE, b |-> FALSE]

\* r + v where r is the outcome of the concatenation so far (a str, or a
\* TypeError already raised) and v a value: str + non-str raises TypeError.
Cat(r, v) ==
    IF r.ok /\ v.t = "str" THEN [ok |-> TRUE, s |-> r.s \o v.s]
    ELSE [ok |-> FALSE, s |-> ""]

Lit(s) == [ok |-> TRUE, s |-> s]

(***************************************************************************)
(* Transport outcomes: requests.Session returns a Response with some       *)
(* status or raises one of its own exceptions.                             *)
(***************************************************************************)
Response(st) == [kind |-> "response", status |-> st, exc |-> ""]

Raised(e) == [kind |-> "exception", status |-> 0, exc |-> e]

NoOutcome == [kind |-> "none", status |-> 0, exc |-> ""]

Outcomes == {Response(200), Response(429), Raised("ConnectionError")}

NoRequest == [sent |-> FALSE]

NoCall == [op |-> "none"]

(***************************************************************************)
(* api.__init__                                                            *)
(***************************************************************************)
NotionApi == "https://api.notion.com/v1/"

\* Variant: only an absent token counts as missing (`if token is None`).
TokenMissing_NoneOnly(tok) == tok = None

TokenMissing(tok) == ~Truthy(tok)

\* Variant: the raw token as the Authorization value, without the scheme.
MakeHeaders_NoBearer(tok) ==
    Dict([k \in {"Authorization", "Content-Type", "Notion-Version"} |->
            CASE k = "Authorization"  -> Str(Format(tok))
              [] k = "Content-Type"   -> Str("Application/JSON")
              [] k = "Notion-Version" -> Str("2021-05-13")])

MakeHeaders(tok) ==
    Dict([k \in {"Authorization", "Content-Type", "Notion-Version"} |->
            CASE k = "Authorization"  -> Str("Bearer " \o Format(tok))
              [] k = "Content-Type"   -> Str("Application/JSON")
              [] k = "Notion-Version" -> Str("2021-05-13")])

Tokens == {None, Str(""), PyInt(0), Str("secret_A"), PyInt(7)}

Construct(tok) ==
    /\ pc = "new"
    /\ token' = tok
    /\ session' = TRUE
    /\ notion_api' = NotionApi
    /\ IF TokenMissing(tok)
       THEN /\ raised' = "token_not_found_exception"
            /\ pc' = "failed"
            /\ headers' = headers
       ELSE /\ raised' = "none"
            /\ pc' = "ready"
            /\ headers' = MakeHeaders(tok)
    /\ UNCHANGED <<call, request, transport, result, calls, verbcalls, nrequests>>

(***************************************************************************)
(* One operation call: either the code hands one request to the session    *)
(* and returns (or lets propagate) what the session produced, or it raises *)
(* before reaching the session.                                            *)
(***************************************************************************)
Dispatch(c, method, url, json, o) ==
    /\ call' = c
    /\ request' = [sent |-> TRUE, method |-> method, url |-> url,
                   headers |-> headers, json |-> json]
    /\ nrequests' = nrequests + 1
    /\ transport' = o
    /\ result' = o
    /\ raised' = "none"
    /\ calls' = calls + 1
    /\ UNCHANGED <<pc, token, session, notion_api, headers, verbcalls>>

Fail(c, e) ==
    /\ call' = c
    /\ request' = NoRequest
    /\ nrequests' = nrequests
    /\ transport' = NoOutcome
    /\ result' = Raised(e)
    /\ raised' = e
    /\ calls' = calls + 1
    /\ UNCHANGED <<pc, token, session, notion_api, headers, verbcalls>>

CanCall == pc = "ready" /\ calls + verbcalls < MaxCalls

(***************************************************************************)
(* api.delete, api.get, api.patch, api.post, api.put: the session's own    *)
(* verb methods, bound as public attributes by __init__.  A call goes      *)
(* straight to the session with the URL and keyword arguments the caller   *)
(* passes: the client adds no header and no base URL, and the call is not  *)
(* one of the client's operations.                                         *)
(***************************************************************************)
Verb(name, method, url, hdrs, json, o) ==
    /\ CanCall
    /\ call' = [op |-> name, url |-> url, headers |-> hdrs, json |-> json]
    /\ request' = [sent |-> TRUE, method |-> method, url |-> url,
                   headers |-> hdrs, json |-> json]
    /\ nrequests' = nrequests + 1
    /\ transport' = o
    /\ result' = o
    /\ raised' = "none"
    /\ verbcalls' = verbcalls + 1
    /\ UNCHANGED <<pc, token, session, notion_api, headers, calls>>

delete(url, hdrs, json, o) == Verb("delete", "DELETE", url, hdrs, json, o)

get(url, hdrs, json, o) == Verb("get", "GET", url, hdrs, json, o)

patch(url, hdrs, json, o) == Verb("patch", "PATCH", url, hdrs, json, o)

post(url, hdrs, json, o) == Verb("post", "POST", url, hdrs, json, o)

put(url, hdrs, json, o) == Verb("put", "PUT", url, hdrs, json, o)

\* URLs a caller hands to a verb: anything, under the base URL or not.
Urls == {"https://example.invalid/x", "https://api.notion.com/v1/users"}

\* headers= of a verb call: not given, or the client's own header set.
VerbHeaders == {None, headers}

\* json= of a verb call: not given, or some mapping.
VerbBodies == {None, Dict("property" :> Str("object"))}

(***************************************************************************)
(* Argument domains.                                                       *)
(***************************************************************************)
Ids == {Str("B1"), Str("abc-123")}

Queries == {None, Str(""), Str("q")}

Objects == {None, Dict(EmptyMap), Dict("property" :> Str("object"))}

Cursors == {None, Str(""), Str("X")}

Lists == {None, List(<<>>),
          List(<<Dict("id" :> Str("a")), Dict("id" :> Str("b"))>>)}

DefaultPageSize == Str("100")

PageSizes == {DefaultPageSize, None, Str("25"), PyInt(50)}

Parents == {None, Str(""), Str("abc-123"), Str("abc123"), PyInt(5),
            Dict("page_id" :> Str("abc-123"))}

(***************************************************************************)
(* api.search                                                              *)
(***************************************************************************)
\* Variant: every key is always written, None standing for an omitted one.
SearchBody_NullKeys(query, sort, filter) ==
    IF Truthy(query) \/ Truthy(sort) \/ Truthy(filter)
    THEN Dict([k \in {"query", "sort", "filter"} |->
                 CASE k = "query"  -> IF Truthy(query) THEN query ELSE None
                   [] k = "sort"   -> IF Truthy(sort) THEN sort ELSE None
                   [] k = "filter" -> IF Truthy(filter) THEN filter ELSE None])
    ELSE None

\* Variant: data starts as {} instead of None, as create_a_page does.
SearchBody_EmptyStart(query, sort, filter) ==
    Dict([k \in {x \in {"query", "sort", "filter"} :
                    \/ x = "query" /\ Truthy(query)
                    \/ x = "sort" /\ Truthy(sort)
                    \/ x = "filter" /\ Truthy(filter)} |->
             CASE k = "query"  -> query
               [] k = "sort"   -> sort
               [] k = "filter" -> filter])

SearchBody(query, sort, filter) ==
    IF Truthy(query) \/ Truthy(sort) \/ Truthy(filter)
    THEN Dict([k \in {x \in {"query", "sort", "filter"} :
                        \/ x = "query" /\ Truthy(query)
                        \/ x = "sort" /\ Truthy(sort)
                        \/ x = "filter" /\ Truthy(filter)} |->
                 CASE k = "query"  -> query
                   [] k = "sort"   -> sort
                   [] k = "filter" -> filter])
    ELSE None

search(query, sort, filter, o) ==
    /\ CanCall
    /\ Dispatch([op |-> "search", query |-> query, sort |-> sort, filter |-> filter],
                "POST", notion_api \o "search", SearchBody(query, sort, filter), o)

(***************************************************************************)
(* api.retrieve_a_database                                                 *)
(***************************************************************************)
RetrieveADatabaseUrl(base, database_id) == Cat(Cat(Lit(base), Str("databases/")), database_id)

retrieve_a_database(database_id, o) ==
    /\ CanCall
    /\ LET c == [op |-> "retrieve_a_database", database_id |-> database_id]
           u == RetrieveADatabaseUrl(notion_api, database_id)
       IN  IF u.ok THEN Dispatch(c, "GET", u.s, None, o) ELSE Fail(c, "TypeError")

(***************************************************************************)
(* api.query_a_database                                                    *)
(***************************************************************************)
\* Variant: data starts as {} and the outer test is dropped.
QueryBody_EmptyStart(filter, sorts, start_cursor, page_size) ==
    Dict([k \in {x \in {"filter", "sorts", "start_cursor", "page_size"} :
                    \/ x = "filter" /\ Truthy(filter)
                    \/ x = "sorts" /\ Truthy(sorts)
                    \/ x = "start_cursor" /\ Truthy(start_cursor)
                    \/ x = "page_size" /\ Truthy(page_size)} |->
             CASE k = "filter"       -> filter
               [] k = "sorts"        -> sorts
               [] k = "start_cursor" -> start_cursor
               [] k = "page_size"    -> page_size])

QueryBody(filter, sorts, start_cursor, page_size) ==
    IF Truthy(filter) \/ Truthy(sorts) \/ Truthy(start_cursor) \/ Truthy(page_size)
    THEN Dict([k \in {x \in {"filter", "sorts", "start_cursor", "page_size"} :
                        \/ x = "filter" /\ Truthy(filter)
                        \/ x = "sorts" /\ Truthy(sorts)
                        \/ x = "start_cursor" /\ Truthy(start_cursor)
                        \/ x = "page_size" /\ Truthy(page_size)} |->
                 CASE k = "filter"       -> filter
                   [] k = "sorts"        -> sorts
                   [] k = "start_cursor" -> start_cursor
                   [] k = "page_size"    -> page_size])
    ELSE None

QueryADatabaseUrl(base, database_id) ==
    Cat(Cat(Cat(Lit(base), Str("databases/")), database_id), Str("/query"))

query_a_database(database_id, filter, sorts, start_cursor, page_size, o) ==
    /\ CanCall
    /\ LET c == [op |-> "query_a_database", database_id |-> database_id,
                 filter |-> filter, sorts |-> sorts,
                 start_cursor |-> start_cursor, page_size |-> page_size]
           u == QueryADatabaseUrl(notion_api, database_id)
       IN  IF u.ok
           THEN Dispatch(c, "POST", u.s, QueryBody(filter, sorts, start_cursor, page_size), o)
           ELSE Fail(c, "TypeError")

(***************************************************************************)
(* api.retrieve_a_page                                                     *)
(***************************************************************************)
RetrieveAPageUrl(base, page_id) == Cat(Cat(Lit(base), Str("pages/")), page_id)

retrieve_a_page(page_id, o) ==
    /\ CanCall
    /\ LET c == [op |-> "retrieve_a_page", page_id |-> page_id]
           u == RetrieveAPageUrl(notion_api, page_id)
       IN  IF u.ok THEN Dispatch(c, "GET", u.s, None, o) ELSE Fail(c, "TypeError")

(***************************************************************************)
(* api.create_a_page                                                       *)
(***************************************************************************)
\* Variant: the two branches of the hyphen test exchanged.
ParentFragment_Swapped(parent) ==
    IF PyIn("-", parent).b THEN Dict("database_id" :> parent)
    ELSE Dict("page_id" :> parent)

\* The parent fragment of lines 194-197; evaluated only for a truthy parent.
ParentFragment(parent) ==
    IF PyIn("-", parent).b THEN Dict("page_id" :> parent)
    ELSE Dict("database_id" :> parent)

\* data of lines 192-201, or the TypeError of `"-" in parent`.
CreateBody(parent, properties, children) ==
    IF Truthy(parent) /\ ~PyIn("-", parent).ok
    THEN [ok |-> FALSE, json |-> None]
    ELSE [ok |-> TRUE,
          json |-> Dict([k \in {x \in {"parent", "properties", "children"} :
                                  \/ x = "parent" /\ Truthy(parent)
                                  \/ x = "properties" /\ Truthy(properties)
                                  \/ x = "children" /\ Truthy(children)} |->
                           CASE k = "parent"     -> ParentFragment(parent)
                             [] k = "properties" -> properties
                             [] k = "children"   -> children])]

create_a_page(parent, properties, children, o) ==
    /\ CanCall
    /\ LET c == [op |-> "create_a_page", parent |-> parent,
                 properties |-> properties, children |-> children]
           d == CreateBody(parent, properties, children)
       IN  IF d.ok
           THEN Dispatch(c, "POST", notion_api \o "pages", d.json, o)
           ELSE Fail(c, "TypeError")

(***************************************************************************)
(* api.update_a_page                                                       *)
(***************************************************************************)
\* Variant: the mapping nested under a "properties" key, as create_a_page does.
UpdateBody_Wrapped(properties) ==
    IF Truthy(properties) THEN Dict("properties" :> properties) ELSE None

UpdateBody(properties) == IF Truthy(properties) THEN properties ELSE None

UpdateAPageUrl(base, page_id) == Cat(Cat(Lit(base), Str("pages/")), page_id)

update_a_page(page_id, properties, o) ==
    /\ CanCall
    /\ LET c == [op |-> "update_a_page", page_id |-> page_id, properties |-> properties]
           u == UpdateAPageUrl(notion_api, page_id)
       IN  IF u.ok THEN Dispatch(c, "PATCH", u.s, UpdateBody(properties), o)
           ELSE Fail(c, "TypeError")

(***************************************************************************)
(* api.retrieve_block_children                                             *)
(***************************************************************************)
\* Variant: the cursor fragment appended whether or not a cursor was given.
RetrieveBlockChildrenUrl_AlwaysCursor(base, block_id, start_cursor, page_size) ==
    LET url == Cat(Cat(Cat(Cat(Lit(base), Str("blocks/")), block_id),
                       Str("/children?page_size=")), page_size)
    IN  IF ~url.ok THEN url
        ELSE Cat(Cat(url, Str("&start_cursor=")),
                 IF Truthy(start_cursor) THEN start_cursor ELSE Str(""))

RetrieveBlockChildrenUrl(base, block_id, start_cursor, page_size) ==
    LET url == Cat(Cat(Cat(Cat(Lit(base), Str("blocks/")), block_id),
                       Str("/children?page_size=")), page_size)
    IN  IF ~url.ok THEN url
        ELSE IF Truthy(start_cursor)
        THEN Cat(Cat(url, Str("&start_cursor=")), start_cursor)
        ELSE url

retrieve_block_children(block_id, start_cursor, page_size, o) ==
    /\ CanCall
    /\ LET c == [op |-> "retrieve_block_children", block_id |-> block_id,
                 start_cursor |-> start_cursor, page_size |-> page_size]
           u == RetrieveBlockChildrenUrl(notion_api, block_id, start_cursor, page_size)
       IN  IF u.ok THEN Dispatch(c, "GET", u.s, None, o) ELSE Fail(c, "TypeError")

(***************************************************************************)
(* api.append_block_children                                               *)
(***************************************************************************)
AppendBody(children) == Dict("children" :> children)

AppendBlockChildrenUrl(base, block_id) ==
    Cat(Cat(Cat(Lit(base), Str("blocks/")), block_id), Str("/children"))

append_block_children(block_id, children, o) ==
    /\ CanCall
    /\ LET c == [op |-> "append_block_children", block_id |-> block_id,
                 children |-> children]
           u == AppendBlockChildrenUrl(notion_api, block_id)
       IN  IF u.ok THEN Dispatch(c, "PATCH", u.s, AppendBody(children), o)
           ELSE Fail(c, "TypeError")

(***************************************************************************)
(* api.retrieve_a_user                                                     *)
(***************************************************************************)
RetrieveAUserUrl(base, user_id) == Cat(Cat(Lit(base), Str("users/")), user_id)

retrieve_a_user(user_id, o) ==
    /\ CanCall
    /\ LET c == [op |-> "retrieve_a_user", user_id |-> user_id]
           u == RetrieveAUserUrl(notion_api, user_id)
       IN  IF u.ok THEN Dispatch(c, "GET", u.s, None, o) ELSE Fail(c, "TypeError")

(***************************************************************************)
(* api.list_all_users                                                      *)
(***************************************************************************)
ListAllUsersUrl(base, start_cursor, page_size) ==
    LET url == Cat(Cat(Lit(base), Str("users?page_size=")), page_size)
    IN  IF ~url.ok THEN url
        ELSE IF Truthy(start_cursor)
        THEN Cat(Cat(url, Str("&start_cursor=")), start_cursor)
        ELSE url

list_all_users(start_cursor, page_size, o) ==
    /\ CanCall
    /\ LET c == [op |-> "list_all_users", start_cursor |-> start_cursor,
                 page_size |-> page_size]
           u == ListAllUsersUrl(notion_api, start_cursor, page_size)
       IN  IF u.ok THEN Dispatch(c, "GET", u.s, None, o) ELSE Fail(c, "TypeError")

Init ==
    /\ pc = "new"
    /\ token = None
    /\ session = FALSE
    /\ notion_api = ""
    /\ headers = None
    /\ call = NoCall
    /\ request = NoRequest
    /\ transport = NoOutcome
    /\ result = NoOutcome
    /\ raised = "none"
    /\ calls = 0
    /\ verbcalls = 0
    /\ nrequests = 0

Next ==
    \/ \E tok \in Tokens : Construct(tok)
    \/ \E q \in Queries, s \in Objects, f \in Objects, o \in Outcomes :
          search(q, s, f, o)
    \/ \E id \in Ids, o \in Outcomes : retrieve_a_database(id, o)
    \/ \E id \in Ids, f \in Objects, s \in Lists, c \in Cursors, p \in PageSizes,
          o \in Outcomes : query_a_database(id, f, s, c, p, o)
    \/ \E id \in Ids, o \in Outcomes : retrieve_a_page(id, o)
    \/ \E pa \in Parents, pr \in Objects, ch \in Lists, o \in Outcomes :
          create_a_page(pa, pr, ch, o)
    \/ \E id \in Ids, pr \in Objects, o \in Outcomes : update_a_page(id, pr, o)
    \/ \E id \in Ids, c \in Cursors, p \in PageSizes, o \in Outcomes :
          retrieve_block_children(id, c, p, o)
    \/ \E id \in Ids, ch \in Lists, o \in Outcomes : append_block_children(id, ch, o)
    \/ \E id \in Ids, o \in Outcomes : retrieve_a_user(id, o)
    \/ \E c \in Cursors, p \in PageSizes, o \in Outcomes : list_all_users(c, p, o)
    \/ \E u \in Urls, h \in VerbHeaders, j \in VerbBodies, o \in Outcomes :
          delete(u, h, j, o)
    \/ \E u \in Urls, h \in VerbHeaders, j \in VerbBodies, o \in Outcomes :
          get(u, h, j, o)
    \/ \E u \in Urls, h \in VerbHeaders, j \in VerbBodies, o \in Outcomes :
          patch(u, h, j, o)
    \/ \E u \in Urls, h \in VerbHeaders, j \in VerbBodies, o \in Outcomes :
          post(u, h, j, o)
    \/ \E u \in Urls, h \in VerbHeaders, j \in VerbBodies, o \in Outcomes :
          put(u, h, j, o)

Spec == Init /\ [][Next]_vars

(***************************************************************************)
(* Vocabulary of the properties.                                           *)
(***************************************************************************)
\* The values that count as not given: absent, empty, or falsy otherwise.
Blank == {None, Str(""), List(<<>>), Dict(EmptyMap), PyInt(0)}

\* The keys of a request body; an absent body has none.
BodyKeys(json) == IF json.t = "dict" THEN DOMAIN json.d ELSE {}

\* The keys of `names` whose argument in the last call was given and non-empty.
GivenKeys(names) == {k \in names : call[k] \notin Blank}

\* A string with a hyphen somewhere in it.
HasHyphen(s) == \E i \in 1..Len(s) : SubSeq(s, i, i) = "-"

\* A non-empty string: what an identifier or a cursor is.
IsText(v) == v.t = "str" /\ v.s # ""

Sent(op) == request.sent /\ call.op = op

\* The ten operations of the client; the verb attributes are not among them.
Operations ==
    {"search", "retrieve_a_database", "query_a_database", "retrieve_a_page",
     "create_a_page", "update_a_page", "retrieve_block_children",
     "append_block_children", "retrieve_a_user", "list_all_users"}

\* The last call was an operation and it handed a request to the session.
SentByOperation == request.sent /\ call.op \in Operations

SearchKeys == {"query", "sort", "filter"}

QueryKeys == {"filter", "sorts", "start_cursor", "page_size"}

CreateKeys == {"parent", "properties", "children"}

(***************************************************************************)
(* C1: constructing the client fails with token_not_found_exception if and *)
(* only if the token is absent, empty or falsy otherwise; with any other   *)
(* token construction succeeds and raises nothing.                         *)
(***************************************************************************)
C1_ConstructFailsIffNoToken ==
    pc # "new" =>
        /\ (pc = "failed") <=> (token \in {None, Str(""), PyInt(0)})
        /\ pc = "failed" => raised = "token_not_found_exception"
        /\ (pc = "ready" /\ calls = 0) => raised = "none"

C1_Witness == pc = "failed" /\ token = Str("") /\ raised = "token_not_found_exception"

(***************************************************************************)
(* C2: in search, query_a_database and create_a_page the request body has  *)
(* a key if and only if its argument was given and non-empty, no key maps  *)
(* to None, and page_size is present in query_a_database whenever it is    *)
(* left at its default.                                                    *)
(***************************************************************************)
C2_BodyKeysAreGivenArguments ==
    /\ Sent("search") => BodyKeys(request.json) = GivenKeys(SearchKeys)
    /\ Sent("query_a_database") =>
          /\ BodyKeys(request.json) = GivenKeys(QueryKeys)
          /\ call.page_size = DefaultPageSize => "page_size" \in BodyKeys(request.json)
    /\ Sent("create_a_page") => BodyKeys(request.json) = GivenKeys(CreateKeys)
    /\ (Sent("search") \/ Sent("query_a_database") \/ Sent("create_a_page")) =>
          \A k \in BodyKeys(request.json) : request.json.d[k] # None

C2_Witness ==
    /\ Sent("search")
    /\ call.query = Str("q") /\ call.sort = None /\ call.filter = Dict(EmptyMap)
    /\ BodyKeys(request.json) = {"query"}

(***************************************************************************)
(* C3, as claimed: every request of an operation call carries              *)
(* Authorization: Bearer <token>, Content-Type: application/json and       *)
(* Notion-Version: 2021-05-13.                                             *)
(***************************************************************************)
BearerOf(tok) ==
    IF tok.t = "str" THEN "Bearer " \o tok.s ELSE "Bearer " \o Decimal(tok.n)

C3_LowercaseContentType ==
    SentByOperation =>
        /\ DOMAIN request.headers.d = {"Authorization", "Content-Type", "Notion-Version"}
        /\ request.headers.d["Authorization"] = Str(BearerOf(token))
        /\ request.headers.d["Content-Type"] = Str("application/json")
        /\ request.headers.d["Notion-Version"] = Str("2021-05-13")

(***************************************************************************)
(* C3, amended: in any sequence of calls on one constructed client every   *)
(* request of an operation call carries exactly the headers                *)
(* Authorization: Bearer <token>, Content-Type: Application/JSON (in this  *)
(* spelling) and Notion-Version: 2021-05-13, under the base URL, and the   *)
(* client's header set and base URL stay what construction made them,      *)
(* whatever operations and verb calls are made.                            *)
(***************************************************************************)
C3_FixedHeaders ==
    /\ pc = "ready" =>
          /\ notion_api = "https://api.notion.com/v1/"
          /\ DOMAIN headers.d = {"Authorization", "Content-Type", "Notion-Version"}
          /\ headers.d["Authorization"] = Str(BearerOf(token))
          /\ headers.d["Content-Type"] = Str("Application/JSON")
          /\ headers.d["Notion-Version"] = Str("2021-05-13")
    /\ SentByOperation =>
          /\ request.headers = headers
          /\ SubSeq(request.url, 1, Len("https://api.notion.com/v1/")) =
                "https://api.notion.com/v1/"

C3_Witness ==
    /\ calls = 2 /\ request.sent
    /\ token = Str("secret_A")
    /\ request.headers.d["Authorization"] = Str("Bearer secret_A")

(***************************************************************************)
(* C4: on a constructed client no operation raises an error of its own;    *)
(* the only error the client raises is token_not_found_exception, at       *)
(* construction.                                                           *)
(***************************************************************************)
C4_OnlyMissingCredentialRaised ==
    /\ raised \in {"none", "token_not_found_exception"}
    /\ raised = "token_not_found_exception" => calls = 0

(***************************************************************************)
(* C5, as claimed: every query_a_database call sends a mapping with at     *)
(* least one key, whatever arguments the caller passes.                    *)
(***************************************************************************)
C5_QueryBodyNeverEmpty ==
    Sent("query_a_database") =>
        /\ request.json.t = "dict"
        /\ BodyKeys(request.json) # {}

(***************************************************************************)
(* C5, amended: a query_a_database call sends a mapping with at least one  *)
(* key whenever one of filter, sorts, start_cursor and page_size is given  *)
(* and non-empty, so whenever page_size is left at its default; with no    *)
(* optional argument given the body is exactly {"page_size": "100"}, the   *)
(* string; when all four are absent or empty (page_size=None) the call     *)
(* sends no body at all, never an empty mapping.                           *)
(***************************************************************************)
C5_QueryBodyEmptyOnlyWithoutPageSize ==
    Sent("query_a_database") =>
        /\ GivenKeys(QueryKeys) # {} =>
              request.json.t = "dict" /\ BodyKeys(request.json) # {}
        /\ GivenKeys(QueryKeys) = {} => request.json = None
        /\ call.page_size = DefaultPageSize => request.json.t = "dict"
        /\ ( /\ call.filter = None /\ call.sorts = None /\ call.start_cursor = None
             /\ call.page_size = DefaultPageSize ) =>
              request.json = Dict("page_size" :> Str("100"))

C5_Witness ==
    /\ Sent("query_a_database")
    /\ call.filter = None /\ call.sorts = None /\ call.start_cursor = None
    /\ call.page_size = DefaultPageSize
    /\ request.json = Dict("page_size" :> Str("100"))

(***************************************************************************)
(* C6: the method and URL of every request an operation dispatches are     *)
(* those of the wire contract, relative to the fixed base URL; page_size   *)
(* is always in the query string of retrieve_block_children and            *)
(* list_all_users, and &start_cursor=<c> follows if and only if a cursor   *)
(* was given.                                                              *)
(***************************************************************************)
CursorPart(c) == IF IsText(c) THEN "&start_cursor=" \o c.s ELSE ""

WireMethod ==
    CASE call.op \in {"search", "query_a_database", "create_a_page"} -> "POST"
      [] call.op \in {"update_a_page", "append_block_children"} -> "PATCH"
      [] call.op \in {"retrieve_a_database", "retrieve_a_page", "retrieve_a_user",
                      "retrieve_block_children", "list_all_users"} -> "GET"

WirePath ==
    CASE call.op = "search" -> "search"
      [] call.op = "retrieve_a_database" -> "databases/" \o call.database_id.s
      [] call.op = "query_a_database" -> "databases/" \o call.database_id.s \o "/query"
      [] call.op = "retrieve_a_page" -> "pages/" \o call.page_id.s
      [] call.op = "create_a_page" -> "pages"
      [] call.op = "update_a_page" -> "pages/" \o call.page_id.s
      [] call.op = "append_block_children" -> "blocks/" \o call.block_id.s \o "/children"
      [] call.op = "retrieve_a_user" -> "users/" \o call.user_id.s
      [] call.op = "retrieve_block_children" ->
            "blocks/" \o call.block_id.s \o "/children?page_size=" \o call.page_size.s
                \o CursorPart(call.start_cursor)
      [] call.op = "list_all_users" ->
            "users?page_size=" \o call.page_size.s \o CursorPart(call.start_cursor)

C6_MethodAndUrlFollowWireContract ==
    SentByOperation =>
        /\ request.method = WireMethod
        /\ request.url = "https://api.notion.com/v1/" \o WirePath

C6_Witness ==
    /\ Sent("retrieve_block_children")
    /\ call.block_id = Str("B1") /\ call.start_cursor = Str("X")
    /\ call.page_size = DefaultPageSize
    /\ request.method = "GET"
    /\ request.url = "https://api.notion.com/v1/blocks/B1/children?page_size=100&start_cursor=X"

(***************************************************************************)
(* C7: create_a_page classifies a parent identifier by the hyphen rule:    *)
(* with a hyphen the body has parent = {"page_id": id}, without one        *)
(* parent = {"database_id": id}; a parent fragment has exactly one of the  *)
(* two keys, and there is no parent key when no parent is given.           *)
(***************************************************************************)
C7_ParentByHyphenRule ==
    Sent("create_a_page") =>
        /\ (IsText(call.parent) /\ HasHyphen(call.parent.s)) =>
              /\ "parent" \in BodyKeys(request.json)
              /\ request.json.d["parent"] = Dict("page_id" :> call.parent)
        /\ (IsText(call.parent) /\ ~HasHyphen(call.parent.s)) =>
              /\ "parent" \in BodyKeys(request.json)
              /\ request.json.d["parent"] = Dict("database_id" :> call.parent)
        /\ "parent" \in BodyKeys(request.json) =>
              /\ request.json.d["parent"].t = "dict"
              /\ \/ DOMAIN request.json.d["parent"].d = {"page_id"}
                 \/ DOMAIN request.json.d["parent"].d = {"database_id"}
        /\ call.parent = None => "parent" \notin BodyKeys(request.json)

C7_Witness ==
    /\ Sent("create_a_page")
    /\ call.parent = Str("abc-123")
    /\ request.json.d["parent"] = Dict("page_id" :> Str("abc-123"))

(***************************************************************************)
(* C8: with no optional parameter given, search and update_a_page send no  *)
(* body while create_a_page sends the empty mapping; search and            *)
(* update_a_page never send an empty mapping and create_a_page never sends *)
(* an absent body.                                                         *)
(***************************************************************************)
C8_AbsentVersusEmptyBody ==
    /\ Sent("search") =>
          /\ (call.query = None /\ call.sort = None /\ call.filter = None) =>
                request.json = None
          /\ request.json # Dict(EmptyMap)
    /\ Sent("update_a_page") =>
          /\ call.properties = None => request.json = None
          /\ request.json # Dict(EmptyMap)
    /\ Sent("create_a_page") =>
          /\ (call.parent = None /\ call.properties = None /\ call.children = None) =>
                request.json = Dict(EmptyMap)
          /\ request.json # None

C8_Witness ==
    /\ Sent("create_a_page")
    /\ call.parent = None /\ call.properties = None /\ call.children = None
    /\ request.json = Dict(EmptyMap)

(***************************************************************************)
(* C9, as claimed: update_a_page with a supplied properties mapping sends  *)
(* exactly that mapping as the whole body, and no body when properties is  *)
(* not supplied; append_block_children sends {"children": children}.       *)
(***************************************************************************)
C9_UpdateSendsAnySuppliedMapping ==
    /\ Sent("update_a_page") =>
          /\ call.properties.t = "dict" => request.json = call.properties
          /\ call.properties = None => request.json = None
    /\ Sent("append_block_children") =>
          request.json = Dict("children" :> call.children)

(***************************************************************************)
(* C9, amended: update_a_page with a supplied non-empty properties mapping *)
(* sends exactly that mapping as the whole body, not nested under a        *)
(* "properties" key, and sends no body when properties is not supplied or  *)
(* is the empty mapping; append_block_children always sends                *)
(* {"children": children} with the caller's list unchanged.                *)
(***************************************************************************)
C9_UpdateSendsNonEmptyMapping ==
    /\ Sent("update_a_page") =>
          /\ (call.properties.t = "dict" /\ call.properties # Dict(EmptyMap)) =>
                request.json = call.properties
          /\ call.properties \in {None, Dict(EmptyMap)} => request.json = None
    /\ Sent("append_block_children") =>
          /\ BodyKeys(request.json) = {"children"}
          /\ request.json.d["children"] = call.children

C9_Witness ==
    /\ Sent("update_a_page")
    /\ call.properties = Dict("property" :> Str("object"))
    /\ request.json = Dict("property" :> Str("object"))

(***************************************************************************)
(* C10: the number of requests issued equals the number of operation calls *)
(* made: construction issues none, each operation call issues exactly one, *)
(* and the caller gets the transport's outcome of that request as it was   *)
(* produced.                                                               *)
(***************************************************************************)
C10_OneRequestPerCall ==
    /\ pc \in {"new", "failed"} => nrequests = 0
    /\ verbcalls = 0 =>
          /\ nrequests = calls
          /\ calls > 0 => (request.sent /\ result = transport)

====
